---- MODULE Spec2Model ----
(***************************************************************************)
(* A model of DependencyScanner (weather-cli-test/dependency-scanner.js):  *)
(* reading the manifest and the lock file, indexing and classifying the    *)
(* installed packages, the sequential enrichment loop of scanDependencies, *)
(* and main's report and save steps.                                       *)
(*                                                                         *)
(* Strings the code takes apart (installation paths, package names,        *)
(* version strings) are sequences of lexical tokens: "node_modules", "/",  *)
(* "@", "^", "~" and the remaining runs of characters.  Strings the code   *)
(* only compares or stores are TLA+ strings.  A JavaScript object used as  *)
(* a mapping is the sequence of its <<key, value>> entries in iteration    *)
(* order (no integer-like keys occur in the model).                        *)
(***************************************************************************)
EXTENDS Integers, Sequences, FiniteSets, TLC

(***************************************************************************)
(* Bounds of the model.                                                    *)
(***************************************************************************)
MaxNest == 2          \* deepest node_modules nesting of a lock-file path
MaxTable == 2         \* most entries of a generated lock-file package table
MaxAdvisories == 2    \* most advisories one advisories response carries
TicksPerDelay == 2    \* clock steps that make up the inter-package delay

(***************************************************************************)
(* Program constants.                                                      *)
(***************************************************************************)
DelayMs == 100
TopN == 5
Unknown == "Unknown"
DefaultManifest == "./package.json"
DefaultLock == "./package-lock.json"
DefaultReport == "dependency-scan.json"
OtherManifest == "./other/package.json"

\* JavaScript's undefined, the value of a missing property: among token
\* strings (Undefined) and among plain strings (UndefinedStr).
Undefined == <<"<undefined>">>
UndefinedStr == "<undefined>"
\* What a lookup finds on Object.prototype for a name that is not an own key
\* ({}["constructor"] is the function Object).
Inherited == <<"<Object.prototype member>">>
InheritedStr == "<Object.prototype member>"
ObjectPrototypeKeys == {<<"constructor">>}

(***************************************************************************)
(* Tokens and token strings.                                               *)
(***************************************************************************)
NM == "node_modules"
SL == "/"
AT == "@"
EmptyString == <<>>

RECURSIVE IndexOfFrom(_, _, _)
\* Least i >= from with SubSeq(s, i, i + Len(sub) - 1) = sub, or 0.
IndexOfFrom(s, sub, from) ==
  IF from + Len(sub) - 1 > Len(s) THEN 0
  ELSE IF SubSeq(s, from, from + Len(sub) - 1) = sub THEN from
  ELSE IndexOfFrom(s, sub, from + 1)

\* String.prototype.replace(pattern, '') with a string pattern: the first
\* occurrence only.
ReplaceFirst(s, sub) ==
  LET i == IndexOfFrom(s, sub, 1)
  IN IF i = 0 THEN s
     ELSE SubSeq(s, 1, i - 1) \o SubSeq(s, i + Len(sub), Len(s))

Includes(s, tok) == \E i \in 1..Len(s) : s[i] = tok

StartsWith(s, tok) == Len(s) > 0 /\ s[1] = tok

\* s.split('/').pop(): what follows the last separator.
SplitPop(s) ==
  LET seps == {i \in 1..Len(s) : s[i] = SL}
      last == IF seps = {} THEN 0 ELSE CHOOSE i \in seps : \A j \in seps : j <= i
  IN SubSeq(s, last + 1, Len(s))

(***************************************************************************)
(* Objects as ordered mappings.                                            *)
(***************************************************************************)
Keys(m) == {m[i][1] : i \in 1..Len(m)}

HasOwn(m, k) == \E i \in 1..Len(m) : m[i][1] = k

OwnValue(m, k) == m[CHOOSE i \in 1..Len(m) : m[i][1] = k][2]

\* m[k]: the own value, else what the prototype chain gives, else undefined.
Lookup(m, k, inherited, undef) ==
  IF HasOwn(m, k) THEN OwnValue(m, k)
  ELSE IF k \in ObjectPrototypeKeys THEN inherited
  ELSE undef

Get(m, k) == Lookup(m, k, Inherited, Undefined)

GetStr(m, k) == Lookup(m, k, InheritedStr, UndefinedStr)

\* Mutant: an existing key keeps its value.
PutKeepingFirst(m, k, v) == IF HasOwn(m, k) THEN m ELSE Append(m, <<k, v>>)

\* m[k] = v: an existing key keeps its place, a new key goes last.
Put(m, k, v) ==
  IF HasOwn(m, k)
  THEN [i \in 1..Len(m) |-> IF m[i][1] = k THEN <<k, v>> ELSE m[i]]
  ELSE Append(m, <<k, v>>)

RECURSIVE PutAll(_, _)
PutAll(m, entries) ==
  IF entries = <<>> THEN m
  ELSE PutAll(Put(m, Head(entries)[1], Head(entries)[2]), Tail(entries))

\* JavaScript truthiness of a value that is a string or undefined.
Truthy(v) == v # Undefined /\ v # EmptyString

TruthyStr(v) == v # UndefinedStr /\ v # ""

(***************************************************************************)
(* The state.                                                              *)
(***************************************************************************)
VARIABLES
  fs,               \* path -> the file there (missing, malformed or its JSON)
  call,             \* the invocation: entry point and arguments
  pc,               \* where the invocation stands
  dependencies,     \* scanDependencies: the mapping being scanned
  dependencyTypes,  \* scanDependencies: name -> 'direct' | 'transitive'
  idx,              \* scanDependencies: position of the loop in dependencies
  versionInfo,      \* scanDependencies: what getVersionInfo returned
  results,          \* scanDependencies: the records pushed so far
  outstanding,      \* fetch requests issued and not yet resolved
  timer,            \* the setTimeout of the loop: "idle" | "armed"
  elapsed,          \* milliseconds since the timer was armed
  log,              \* console.warn / console.error lines, in order
  events,           \* history: requests, responses, timer events, in order
  console,          \* what generateReport printed (main)
  written,          \* the reports fs.writeFileSync wrote, in order
  exitCode,         \* process exit code: -1 while running
  rets              \* library calls made so far and what each returned

vars == <<fs, call, pc, dependencies, dependencyTypes, idx, versionInfo, results,
          outstanding, timer, elapsed, log, events, console, written, exitCode, rets>>

(***************************************************************************)
(* Results of synchronous methods: a value or a thrown Error, and the      *)
(* console lines written on the way.                                       *)
(***************************************************************************)
Return(v, lines) == [threw |-> FALSE, value |-> v, error |-> <<>>, log |-> lines]

Throw(msg, lines) == [threw |-> TRUE, value |-> <<>>, error |-> msg, log |-> lines]

Line(level, what, pkg, detail) ==
  [level |-> level, what |-> what, pkg |-> pkg, detail |-> detail]

\* JSON.parse(fs.readFileSync(path, 'utf8')): the error message when it throws.
ReadError(path) ==
  IF fs[path].kind = "missing" THEN "ENOENT: no such file or directory"
  ELSE "Unexpected token in JSON"

Readable(path) == fs[path].kind = "json"

\* {...group}: the entries of a group, none when the group is absent.
Spread(group) == IF group.present THEN group.entries ELSE <<>>

\* Mutant: the groups are spread in the other order.
MergedGroupsDevFirst(packageJson) ==
  PutAll(PutAll(<<>>, Spread(packageJson.devDependencies)),
         Spread(packageJson.dependencies))

\* { ...packageJson.dependencies, ...packageJson.devDependencies }
MergedGroups(packageJson) ==
  PutAll(PutAll(<<>>, Spread(packageJson.dependencies)),
         Spread(packageJson.devDependencies))

getDependencies(packageJsonPath) ==
  IF Readable(packageJsonPath)
  THEN Return(MergedGroups(fs[packageJsonPath]), <<>>)
  ELSE Throw(<<"Failed to read package.json", ReadError(packageJsonPath)>>, <<>>)

\* The name under which an installation path is indexed.
NormalizedName(packagePath) ==
  LET packageName == ReplaceFirst(packagePath, <<NM, SL>>)
  IN IF Includes(packageName, SL) /\ ~StartsWith(packageName, AT)
     THEN SplitPop(packageName)
     ELSE packageName

\* Mutant: the root entry is not skipped.
IndexEntryKeepingRoot(allPackages, packagePath, packageInfo) ==
  IF Truthy(packageInfo.version)
  THEN Put(allPackages, NormalizedName(packagePath), packageInfo.version)
  ELSE allPackages

\* One iteration of the loop over Object.entries(packageLock.packages || {}).
IndexEntry(allPackages, packagePath, packageInfo) ==
  IF packagePath = EmptyString THEN allPackages
  ELSE IF Truthy(packageInfo.version)
  THEN Put(allPackages, NormalizedName(packagePath), packageInfo.version)
  ELSE allPackages

RECURSIVE IndexTable(_, _)
IndexTable(allPackages, table) ==
  IF table = <<>> THEN allPackages
  ELSE IndexTable(IndexEntry(allPackages, Head(table)[1], Head(table)[2]),
                  Tail(table))

LockWarnings(packageLockPath) ==
  << Line("warn", "Warning: Could not read package-lock.json", <<>>,
          ReadError(packageLockPath)),
     Line("warn", "Falling back to package.json dependencies only", <<>>, "") >>

getAllInstalledPackages(packageLockPath) ==
  IF Readable(packageLockPath)
  THEN LET packageLock == fs[packageLockPath]
       IN Return(IndexTable(<<>>, IF packageLock.hasPackages
                                  THEN packageLock.packages ELSE <<>>), <<>>)
  ELSE LET fallback == getDependencies(DefaultManifest)
       IN [fallback EXCEPT !.log = LockWarnings(packageLockPath) \o @]

\* directDeps[packageName] ? 'direct' : 'transitive'
Classify(directDeps, packageName) ==
  IF Truthy(Get(directDeps, packageName)) THEN "direct" ELSE "transitive"

RECURSIVE ClassifyUnseen(_, _, _)
\* Mutant: the scanner remembers the names it has classified and skips them
\* in later calls.
ClassifyUnseen(types, directDeps, allDeps) ==
  LET seen == UNION {Keys(rets[k].result.value) :
                       k \in {c \in 1..Len(rets) : rets[c].fn = "getDependencyTypes"}}
  IN IF allDeps = <<>> THEN types
     ELSE IF Head(allDeps)[1] \in seen
     THEN ClassifyUnseen(types, directDeps, Tail(allDeps))
     ELSE ClassifyUnseen(Put(types, Head(allDeps)[1], Classify(directDeps, Head(allDeps)[1])),
                         directDeps, Tail(allDeps))

RECURSIVE ClassifyAll(_, _, _)
ClassifyAll(types, directDeps, allDeps) ==
  IF allDeps = <<>> THEN types
  ELSE ClassifyAll(Put(types, Head(allDeps)[1], Classify(directDeps, Head(allDeps)[1])),
                   directDeps, Tail(allDeps))

getDependencyTypes(packageJsonPath) ==
  IF ~Readable(packageJsonPath)
  THEN Throw(<<"Failed to analyze dependency types", ReadError(packageJsonPath)>>, <<>>)
  ELSE LET directDeps == MergedGroups(fs[packageJsonPath])
           allDeps == getAllInstalledPackages(DefaultLock)
       IN IF allDeps.threw
          THEN Throw(<<"Failed to analyze dependency types">> \o allDeps.error,
                     allDeps.log)
          ELSE Return(ClassifyAll(<<>>, directDeps, allDeps.value), allDeps.log)

(***************************************************************************)
(* Inputs: package names, versions, files.                                 *)
(***************************************************************************)
Axios == <<"axios">>
Chalk == <<"chalk">>
FollowRedirects == <<"follow-redirects">>
Scoped == <<AT, "scope", SL, "name">>
Constructor == <<"constructor">>

V1 == <<"1.12.2">>
V2 == <<"1.15.0">>
CaretV1 == <<"^", "1.12.2">>
TildeV2 == <<"~", "1.15.0">>
\* The range "1.12.2 || ^1.15.0".
OrRange == <<"1.12.2", " || ", "^", "1.15.0">>

RECURSIVE InstallPath(_)
\* node_modules/<chain[1]>/node_modules/<chain[2]>/...
InstallPath(chain) ==
  IF Len(chain) = 1 THEN <<NM, SL>> \o chain[1]
  ELSE InstallPath(SubSeq(chain, 1, Len(chain) - 1)) \o <<SL, NM, SL>> \o chain[Len(chain)]

Chains(names, depth) == UNION {[1..d -> names] : d \in 1..depth}

Missing == [kind |-> "missing"]
Malformed == [kind |-> "malformed"]

Absent == [present |-> FALSE, entries |-> <<>>]
Group(entries) == [present |-> TRUE, entries |-> entries]

Manifest(deps, dev) ==
  [kind |-> "json", dependencies |-> deps, devDependencies |-> dev]

Lock(table) == [kind |-> "json", hasPackages |-> TRUE, packages |-> table]
LockWithoutTable == [kind |-> "json", hasPackages |-> FALSE, packages |-> <<>>]

Info(v) == [version |-> v]

\* Package tables of at most maxlen entries with distinct paths.
Tables(paths, infos, maxlen) ==
  {t \in UNION {[1..n -> paths \X infos] : n \in 0..maxlen} :
     \A i, j \in 1..Len(t) : i # j => t[i][1] # t[j][1]}

Files(manifest, other, lock) ==
  (DefaultManifest :> manifest) @@ (OtherManifest :> other) @@ (DefaultLock :> lock)

(***************************************************************************)
(* Library calls: one synchronous method called on a fresh scanner.        *)
(***************************************************************************)
MaxCalls == 2

IndexNames == {Axios, Scoped}
IndexPaths == {EmptyString} \cup {InstallPath(c) : c \in Chains(IndexNames, MaxNest)}
IndexInfos == {Info(Undefined), Info(V1), Info(V2)}
IndexLocks ==
  {Missing, Malformed, LockWithoutTable}
    \cup {Lock(t) : t \in Tables(IndexPaths, IndexInfos, MaxTable)}
IndexManifests == {Missing, Manifest(Group(<<<<Axios, CaretV1>>>>), Absent)}

TypesNames == {Axios, Chalk, Constructor}
TypesPaths == {EmptyString} \cup {InstallPath(c) : c \in Chains(TypesNames, 1)}
TypesLocks ==
  {Missing, Malformed, LockWithoutTable}
    \cup {Lock(t) : t \in Tables(TypesPaths, {Info(V1)}, MaxTable)}
TypesGroups ==
  {Absent, Group(<<>>), Group(<<<<Axios, CaretV1>>>>),
   Group(<<<<Chalk, EmptyString>>, <<Axios, TildeV2>>>>)}
TypesManifests ==
  {Missing, Malformed}
    \cup {Manifest(deps, dev) : deps \in TypesGroups, dev \in TypesGroups}
TypesOthers == {Missing, Manifest(Group(<<<<Chalk, V1>>>>), Absent)}

\* null, as getVersionInfo returns it.
NullInfo == [null |-> TRUE, publishedAt |-> UndefinedStr, isDefault |-> FALSE]

Idle ==
  /\ pc = "ready"
  /\ dependencies = <<>>
  /\ dependencyTypes = <<>>
  /\ idx = 0
  /\ versionInfo = NullInfo
  /\ results = <<>>
  /\ outstanding = {}
  /\ timer = "idle"
  /\ elapsed = 0
  /\ log = <<>>
  /\ events = <<>>
  /\ console = <<>>
  /\ written = <<>>
  /\ exitCode = -1
  /\ rets = <<>>

LibCall(fn, arg, result) ==
  /\ call.entry = "lib"
  /\ Len(rets) < MaxCalls
  /\ rets' = Append(rets, [fn |-> fn, arg |-> arg, result |-> result])
  /\ log' = log \o result.log
  /\ UNCHANGED <<fs, call, pc, dependencies, dependencyTypes, idx, versionInfo,
                 results, outstanding, timer, elapsed, events, console, written,
                 exitCode>>

CallGetDependencies ==
  \E path \in {DefaultManifest, OtherManifest} :
    LibCall("getDependencies", path, getDependencies(path))

CallGetAllInstalledPackages ==
  LibCall("getAllInstalledPackages", DefaultLock, getAllInstalledPackages(DefaultLock))

CallGetDependencyTypes ==
  \E path \in {DefaultManifest, OtherManifest} :
    LibCall("getDependencyTypes", path, getDependencyTypes(path))

IndexInit ==
  /\ fs \in {Files(m, Missing, l) : m \in IndexManifests, l \in IndexLocks}
  /\ call = [entry |-> "lib"]
  /\ Idle

IndexNext == CallGetAllInstalledPackages

SpecIndex == IndexInit /\ [][IndexNext]_vars

TypesInit ==
  /\ fs \in {Files(m, o, l) : m \in TypesManifests, o \in TypesOthers, l \in TypesLocks}
  /\ call = [entry |-> "lib"]
  /\ Idle

TypesNext == CallGetDependencies \/ CallGetDependencyTypes

SpecTypes == TypesInit /\ [][TypesNext]_vars

(***************************************************************************)
(* Enrichment: the two fetches of a package and what they resolve with.    *)
(***************************************************************************)
\* version.replace(/[\^~]/, ''): the first caret or tilde, wherever it is.
CleanVersion(version) ==
  LET marks == {i \in 1..Len(version) : version[i] \in {"^", "~"}}
  IN IF marks = {} THEN version
     ELSE LET first == CHOOSE i \in marks : \A j \in marks : i <= j
          IN SubSeq(version, 1, first - 1) \o SubSeq(version, first + 1, Len(version))

Request(fn, packageName, version) ==
  [fn |-> fn, package |-> packageName, version |-> CleanVersion(version)]

PublishedD1 == "2025-09-14T12:59:27Z"

A1 == [id |-> "GHSA-1", title |-> "t1", severity |-> "HIGH", cvss |-> "7.5",
       summary |-> "s1", url |-> "u1"]
A2 == [id |-> "GHSA-2", title |-> "t2", severity |-> UndefinedStr,
       cvss |-> UndefinedStr, summary |-> UndefinedStr, url |-> "u2"]

AdvisoryLists == UNION {[1..n -> {A1, A2}] : n \in 0..MaxAdvisories}

\* How a fetch ends: a response with response.ok, a rejected fetch, or a
\* response with a non-success status.
Statuses == {"ok", "neterr", "http500", "http404"}

ErrorMessage(status) ==
  CASE status = "neterr" -> "fetch failed"
    [] status = "http500" -> "HTTP 500: Internal Server Error"
    [] status = "http404" -> "HTTP 404: Not Found"

InfoBodies ==
  {[null |-> FALSE, publishedAt |-> PublishedD1, isDefault |-> TRUE],
   [null |-> FALSE, publishedAt |-> UndefinedStr, isDefault |-> FALSE]}

AdvisoryBodies ==
  {[hasAdvisories |-> FALSE, advisories |-> <<>>]}
    \cup {[hasAdvisories |-> TRUE, advisories |-> l] : l \in AdvisoryLists}

\* Mutant: response.ok is not looked at, the body of any response is returned.
VersionInfoResultUnchecked(packageName, version, status, body) ==
  IF status # "neterr" THEN Return(body, <<>>)
  ELSE Return(NullInfo,
              <<Line("error", "Failed to get version info",
                     <<packageName, version>>, ErrorMessage(status))>>)

\* What getVersionInfo returns once its fetch has ended, and what it logs.
VersionInfoResult(packageName, version, status, body) ==
  IF status = "ok" THEN Return(body, <<>>)
  ELSE Return(NullInfo,
              <<Line("error", "Failed to get version info",
                     <<packageName, version>>, ErrorMessage(status))>>)

\* Mutant: a 404 is handled as any other response that is not ok.
VulnerabilitiesResultThrowingOn404(packageName, version, status, body) ==
  IF status = "ok"
  THEN Return(IF body.hasAdvisories THEN body.advisories ELSE <<>>, <<>>)
  ELSE Return(<<>>,
              <<Line("error", "Failed to get vulnerabilities",
                     <<packageName, version>>, ErrorMessage(status))>>)

\* What getVulnerabilities returns once its fetch has ended, and what it logs.
VulnerabilitiesResult(packageName, version, status, body) ==
  IF status = "ok"
  THEN Return(IF body.hasAdvisories THEN body.advisories ELSE <<>>, <<>>)
  ELSE IF status = "http404" THEN Return(<<>>, <<>>)
  ELSE Return(<<>>,
              <<Line("error", "Failed to get vulnerabilities",
                     <<packageName, version>>, ErrorMessage(status))>>)

MapVulnerability(vuln) ==
  [id |-> vuln.id, title |-> vuln.title, severity |-> vuln.severity,
   cvss |-> vuln.cvss, summary |-> vuln.summary]

\* Mutant: without version info the advisories are dropped too.
ScanRecordCoupled(packageName, version, types, info, vulnerabilities) ==
  [package |-> packageName,
   currentVersion |-> version,
   dependencyType |->
     IF TruthyStr(GetStr(types, packageName)) THEN GetStr(types, packageName)
     ELSE "direct",
   publishedAt |->
     IF ~info.null /\ TruthyStr(info.publishedAt) THEN info.publishedAt ELSE Unknown,
   isDefault |-> ~info.null /\ info.isDefault,
   vulnerabilities |->
     IF info.null THEN <<>>
     ELSE [i \in 1..Len(vulnerabilities) |-> MapVulnerability(vulnerabilities[i])],
   vulnerabilityCount |-> IF info.null THEN 0 ELSE Len(vulnerabilities)]

\* The record scanDependencies builds for one package.
\* Mutant: the record carries the version as it was sent in the requests.
ScanRecordWithCleanVersion(packageName, version, types, info, vulnerabilities) ==
  [package |-> packageName,
   currentVersion |-> CleanVersion(version),
   dependencyType |->
     IF TruthyStr(GetStr(types, packageName)) THEN GetStr(types, packageName)
     ELSE "direct",
   publishedAt |->
     IF ~info.null /\ TruthyStr(info.publishedAt) THEN info.publishedAt ELSE Unknown,
   isDefault |-> ~info.null /\ info.isDefault,
   vulnerabilities |->
     [i \in 1..Len(vulnerabilities) |-> MapVulnerability(vulnerabilities[i])],
   vulnerabilityCount |-> Len(vulnerabilities)]

ScanRecord(packageName, version, types, info, vulnerabilities) ==
  [package |-> packageName,
   currentVersion |-> version,
   dependencyType |->
     IF TruthyStr(GetStr(types, packageName)) THEN GetStr(types, packageName)
     ELSE "direct",
   publishedAt |->
     IF ~info.null /\ TruthyStr(info.publishedAt) THEN info.publishedAt ELSE Unknown,
   isDefault |-> ~info.null /\ info.isDefault,
   vulnerabilities |->
     [i \in 1..Len(vulnerabilities) |-> MapVulnerability(vulnerabilities[i])],
   vulnerabilityCount |-> Len(vulnerabilities)]

\* An entry of the history.  A response that is not ok carries no body.
NoBody == [none |-> TRUE]
Event(type, fn, i, status, body) ==
  [type |-> type, fn |-> fn, i |-> i, status |-> status,
   body |-> IF status = "ok" THEN body ELSE NoBody]

\* Mutant: results = [result] instead of results.push(result).
PushedReplacing(res, record) == <<record>>

\* Mutant: the record is put in front of the earlier ones.
PushedInFront(res, record) == <<record>> \o res

\* results.push(result)
Pushed(res, record) == Append(res, record)

(***************************************************************************)
(* scanDependencies: the loop, one action per stretch between two awaits.  *)
(***************************************************************************)
TickMs == DelayMs \div TicksPerDelay

\* The arguments scanDependencies runs with: main passes none.
PackageJsonPath == IF call.entry = "main" THEN DefaultManifest ELSE call.packageJsonPath
IncludeTransitive == IF call.entry = "main" THEN TRUE ELSE call.includeTransitive

\* Lines 131-135: the mapping to scan and the classification, or the Error.
LoadDependencies ==
  IF IncludeTransitive
  THEN getAllInstalledPackages(DefaultLock)
  ELSE getDependencies(PackageJsonPath)

\* Mutant: a failure to classify is swallowed and the scan goes on unclassified.
LoadDependencyTypesSwallowing ==
  IF IncludeTransitive
  THEN LET types == getDependencyTypes(PackageJsonPath)
       IN IF types.threw THEN Return(<<>>, types.log) ELSE types
  ELSE Return(<<>>, <<>>)

LoadDependencyTypes ==
  IF IncludeTransitive THEN getDependencyTypes(PackageJsonPath) ELSE Return(<<>>, <<>>)

\* scanDependencies rejects: main's catch logs and exits with 1, another
\* caller sees the rejection.
ScanFails(error, lines) ==
  /\ pc' = IF call.entry = "main" THEN "exited" ELSE "rejected"
  /\ log' = IF call.entry = "main"
            THEN log \o lines \o <<Line("error", "Scan failed:", <<>>, error)>>
            ELSE log \o lines
  /\ exitCode' = IF call.entry = "main" THEN 1 ELSE exitCode
  /\ rets' = Append(rets, [fn |-> "scanDependencies", arg |-> PackageJsonPath,
                           result |-> Throw(error, <<>>)])
  /\ UNCHANGED <<fs, call, dependencies, dependencyTypes, idx, versionInfo, results,
                 outstanding, timer, elapsed, events, console, written>>

\* Mutant: both fetches of a package are issued together.
EnterIterationBothFetches(deps, i, history) ==
  /\ idx' = i
  /\ outstanding' = {Request("getVersionInfo", deps[i][1], deps[i][2]),
                     Request("getVulnerabilities", deps[i][1], deps[i][2])}
  /\ events' = history \o <<Event("request", "getVersionInfo", i, "", NoBody),
                             Event("request", "getVulnerabilities", i, "", NoBody)>>
  /\ pc' = "awaitVersion"
  /\ rets' = rets

\* The loop reaches entry i: getVersionInfo issues its fetch.
EnterIteration(deps, i, history) ==
  /\ idx' = i
  /\ outstanding' = {Request("getVersionInfo", deps[i][1], deps[i][2])}
  /\ events' = Append(history, Event("request", "getVersionInfo", i, "", NoBody))
  /\ pc' = "awaitVersion"
  /\ rets' = rets

\* The loop is over: scanDependencies returns results.
LeaveLoop(res, history) ==
  /\ outstanding' = {}
  /\ events' = history
  /\ pc' = "returned"
  /\ rets' = Append(rets, [fn |-> "scanDependencies", arg |-> PackageJsonPath,
                           result |-> Return(res, <<>>)])
  /\ idx' = idx

ScanStart ==
  /\ pc = "ready"
  /\ call.entry \in {"main", "api"}
  /\ LET deps == LoadDependencies
     IN IF deps.threw THEN ScanFails(deps.error, deps.log)
        ELSE LET types == LoadDependencyTypes
             IN IF types.threw THEN ScanFails(types.error, deps.log \o types.log)
                ELSE /\ dependencies' = deps.value
                     /\ dependencyTypes' = types.value
                     /\ results' = <<>>
                     /\ log' = log \o deps.log \o types.log
                     /\ IF deps.value = <<>>
                        THEN LeaveLoop(<<>>, events)
                        ELSE EnterIteration(deps.value, 1, events)
                     /\ UNCHANGED <<fs, call, versionInfo, timer, elapsed, console,
                                    written, exitCode>>

\* Mutant: the record is pushed as soon as the version info is there, with
\* the advisories fetch still under way.
VersionInfoResolvesPushing ==
  /\ pc = "awaitVersion"
  /\ \E status \in Statuses, body \in InfoBodies :
       LET packageName == dependencies[idx][1]
           version == dependencies[idx][2]
           got == VersionInfoResult(packageName, version, status, body)
       IN /\ versionInfo' = got.value
          /\ log' = log \o got.log
          /\ results' = Pushed(results, ScanRecord(packageName, version, dependencyTypes,
                                                   got.value, <<>>))
          /\ outstanding' = {Request("getVulnerabilities", packageName, version)}
          /\ events' = events \o <<Event("response", "getVersionInfo", idx, status, body),
                                   Event("record", "", idx, "", NoBody),
                                   Event("request", "getVulnerabilities", idx, "", NoBody)>>
          /\ pc' = "awaitVulns"
  /\ UNCHANGED <<fs, call, dependencies, dependencyTypes, idx, timer,
                 elapsed, console, written, exitCode, rets>>

\* The fetch of getVersionInfo ends; getVersionInfo returns; getVulnerabilities
\* issues its fetch.
VersionInfoResolves ==
  /\ pc = "awaitVersion"
  /\ \E status \in Statuses, body \in InfoBodies :
       LET packageName == dependencies[idx][1]
           version == dependencies[idx][2]
           got == VersionInfoResult(packageName, version, status, body)
       IN /\ versionInfo' = got.value
          /\ log' = log \o got.log
          /\ outstanding' = {Request("getVulnerabilities", packageName, version)}
          /\ events' = events \o <<Event("response", "getVersionInfo", idx, status, body),
                                   Event("request", "getVulnerabilities", idx, "", NoBody)>>
          /\ pc' = "awaitVulns"
  /\ UNCHANGED <<fs, call, dependencies, dependencyTypes, idx, results, timer,
                 elapsed, console, written, exitCode, rets>>

\* The fetch of getVulnerabilities ends; the record is pushed; the delay starts.
VulnerabilitiesResolve ==
  /\ pc = "awaitVulns"
  /\ \E status \in Statuses, body \in AdvisoryBodies :
       LET packageName == dependencies[idx][1]
           version == dependencies[idx][2]
           got == VulnerabilitiesResult(packageName, version, status, body)
       IN /\ log' = log \o got.log
          /\ results' = Pushed(results, ScanRecord(packageName, version, dependencyTypes,
                                                   versionInfo, got.value))
          /\ events' = events \o <<Event("response", "getVulnerabilities", idx, status, body),
                                   Event("record", "", idx, "", NoBody),
                                   Event("timerSet", "", idx, "", NoBody)>>
  /\ outstanding' = {}
  /\ timer' = "armed"
  /\ elapsed' = 0
  /\ pc' = "delay"
  /\ UNCHANGED <<fs, call, dependencies, dependencyTypes, idx, versionInfo, console,
                 written, exitCode, rets>>

\* Time passes while the timer is armed.
Tick ==
  /\ timer = "armed"
  /\ elapsed < DelayMs
  /\ elapsed' = elapsed + TickMs
  /\ UNCHANGED <<fs, call, pc, dependencies, dependencyTypes, idx, versionInfo, results,
                 outstanding, timer, log, events, console, written, exitCode, rets>>

\* Mutant: the timer never calls back.
TimerDueNever == timer = "armed" /\ elapsed < 0

\* Mutant: the timer calls back without waiting.
TimerDueAtOnce == timer = "armed"

\* setTimeout(resolve, 100) calls back no earlier than 100 ms after it was set.
TimerDue == timer = "armed" /\ elapsed >= DelayMs

\* The delay is over: the next iteration starts, or the loop ends.
TimerFires ==
  /\ pc = "delay"
  /\ TimerDue
  /\ timer' = "idle"
  /\ LET history == Append(events, Event("timerFired", "", idx, "", NoBody))
     IN IF idx < Len(dependencies)
        THEN EnterIteration(dependencies, idx + 1, history)
        ELSE LeaveLoop(results, history)
  /\ UNCHANGED <<fs, call, dependencies, dependencyTypes, versionInfo, results, elapsed,
                 log, console, written, exitCode>>

(***************************************************************************)
(* generateReport and saveResults.                                         *)
(***************************************************************************)
Vulnerable(res) == SelectSeq(res, LAMBDA r : r.vulnerabilityCount > 0)
Direct(res) == SelectSeq(res, LAMBDA r : r.dependencyType = "direct")
Transitive(res) == SelectSeq(res, LAMBDA r : r.dependencyType = "transitive")

PublishedD2 == "2019-01-01T00:00:00Z"
PublishedD2b == "2019-01-01T00:00:00.000Z"
PublishedD3 == "2021-06-30T08:00:00Z"

\* new Date(publishedAt): the instant, as a day count good for comparing.
Timestamp(publishedAt) ==
  CASE publishedAt = PublishedD1 -> 20250914
    [] publishedAt = PublishedD2 -> 20190101
    [] publishedAt = PublishedD2b -> 20190101
    [] publishedAt = PublishedD3 -> 20210630

\* Mutant: r goes before the records of the same instant.
InsertByDateUnstable(sorted, r) ==
  LET before == {i \in 1..Len(sorted) :
                   Timestamp(sorted[i].publishedAt) < Timestamp(r.publishedAt)}
      k == IF before = {} THEN 0 ELSE CHOOSE i \in before : \A j \in before : j <= i
  IN SubSeq(sorted, 1, k) \o <<r>> \o SubSeq(sorted, k + 1, Len(sorted))

\* Array.prototype.sort is stable: r goes after the records that are not later.
InsertByDate(sorted, r) ==
  LET before == {i \in 1..Len(sorted) :
                   Timestamp(sorted[i].publishedAt) <= Timestamp(r.publishedAt)}
      k == IF before = {} THEN 0 ELSE CHOOSE i \in before : \A j \in before : j <= i
  IN SubSeq(sorted, 1, k) \o <<r>> \o SubSeq(sorted, k + 1, Len(sorted))

RECURSIVE SortByDate(_)
SortByDate(res) ==
  IF res = <<>> THEN <<>>
  ELSE InsertByDate(SortByDate(SubSeq(res, 1, Len(res) - 1)), res[Len(res)])

\* The 'oldest dependencies' lines generateReport prints.
OldestDependencies(res) ==
  LET sortedByDate == SortByDate(SelectSeq(res, LAMBDA r : r.publishedAt # Unknown))
  IN SubSeq(sortedByDate, 1, IF Len(sortedByDate) < TopN THEN Len(sortedByDate) ELSE TopN)

\* Mutant: generateReport sorts the array it was given.
ArgumentSortedInPlace(res) ==
  SortByDate(SelectSeq(res, LAMBDA r : r.publishedAt # Unknown))
    \o SelectSeq(res, LAMBDA r : r.publishedAt = Unknown)

\* The array passed to generateReport, after the call: filter returns new
\* arrays and sort acts on the one filter returned.
ArgumentAfterReport(res) == res

\* What generateReport prints.
ConsoleReport(res) ==
  [total |-> Len(res),
   direct |-> Len(Direct(res)),
   transitive |-> Len(Transitive(res)),
   vulnerable |-> Vulnerable(res),
   breakdown |-> Len(Transitive(res)) > 0,
   oldest |-> OldestDependencies(res)]

\* Mutant: vulnerableDirect counts every direct record.
SummaryCountingAllDirect(res) ==
  [totalPackages |-> Len(res),
   directDependencies |-> Len(Direct(res)),
   transitiveDependencies |-> Len(Transitive(res)),
   vulnerablePackages |-> Len(Vulnerable(res)),
   vulnerableDirect |-> Len(Direct(res)),
   vulnerableTransitive |-> Len(Transitive(Vulnerable(res)))]

Summary(res) ==
  [totalPackages |-> Len(res),
   directDependencies |-> Len(Direct(res)),
   transitiveDependencies |-> Len(Transitive(res)),
   vulnerablePackages |-> Len(Vulnerable(res)),
   vulnerableDirect |-> Len(Direct(Vulnerable(res))),
   vulnerableTransitive |-> Len(Transitive(Vulnerable(res)))]

\* The report object saveResults builds.
Report(res) == [scanDate |-> "scanDate", summary |-> Summary(res), results |-> res]

\* JSON.stringify leaves out a property whose value is undefined or a function.
NotSerialized == {UndefinedStr, InheritedStr}

\* The object read back from the JSON text of o; stringKeys are the
\* properties of o that hold a string, undefined or a function.
Reread(o, stringKeys) ==
  [k \in DOMAIN o \ {key \in stringKeys : o[key] \in NotSerialized} |-> o[k]]

RereadRecord(r) ==
  LET kept == Reread(r, {"dependencyType", "publishedAt"})
  IN [k \in DOMAIN kept |->
        IF k = "vulnerabilities"
        THEN [j \in 1..Len(r.vulnerabilities) |->
                Reread(r.vulnerabilities[j], DOMAIN r.vulnerabilities[j])]
        ELSE kept[k]]

\* JSON.parse of the text JSON.stringify(report, null, 2) gives.
RereadReport(report) ==
  [scanDate |-> report.scanDate,
   summary |-> report.summary,
   results |-> [i \in 1..Len(report.results) |-> RereadRecord(report.results[i])]]

\* What saveResults leaves behind: the file, the report object it built and
\* the document the file's text parses to.
Saved(res) ==
  [filename |-> DefaultReport, report |-> Report(res), json |-> RereadReport(Report(res))]

\* main, line 256.
MainGenerateReport ==
  /\ call.entry = "main"
  /\ pc = "returned"
  /\ console' = Append(console, ConsoleReport(results))
  /\ results' = ArgumentAfterReport(results)
  /\ pc' = "reported"
  /\ UNCHANGED <<fs, call, dependencies, dependencyTypes, idx, versionInfo,
                 outstanding, timer, elapsed, log, events, written, exitCode, rets>>

\* Mutant: main saves the results before it prints the report.
MainSaveResultsBeforeReport ==
  /\ call.entry = "main"
  /\ pc = "returned"
  /\ written' = Append(written, Saved(results))
  /\ pc' = "done"
  /\ exitCode' = 0
  /\ UNCHANGED <<fs, call, dependencies, dependencyTypes, idx, versionInfo, results,
                 outstanding, timer, elapsed, log, events, console, rets>>

\* main, line 257, and the process ending.
MainSaveResults ==
  /\ call.entry = "main"
  /\ pc = "reported"
  /\ written' = Append(written, Saved(results))
  /\ pc' = "done"
  /\ exitCode' = 0
  /\ UNCHANGED <<fs, call, dependencies, dependencyTypes, idx, versionInfo, results,
                 outstanding, timer, elapsed, log, events, console, rets>>

\* A caller of scanDependencies passes what it returned to saveResults.
ApiSaveResults ==
  /\ call.entry = "api"
  /\ pc = "returned"
  /\ written' = Append(written, Saved(results))
  /\ pc' = "saved"
  /\ UNCHANGED <<fs, call, dependencies, dependencyTypes, idx, versionInfo, results,
                 outstanding, timer, elapsed, log, events, console, exitCode, rets>>

(***************************************************************************)
(* generateReport and saveResults called on a record sequence, as the      *)
(* README's Advanced Usage does with what scanDependencies returned.       *)
(***************************************************************************)
ExtraRecords == 1
MaxRecords == TopN + ExtraRecords

ReportNames ==
  <<Axios, Chalk, FollowRedirects, Scoped, Constructor, <<"lodash">>, <<"debug">>, <<"ms">>>>

ReportDates == {Unknown, PublishedD1, PublishedD2, PublishedD2b}

\* The record of the i-th package, as scanDependencies builds it.
ReportRecord(i, publishedAt) ==
  [package |-> ReportNames[i],
   currentVersion |-> V1,
   dependencyType |-> IF i % 2 = 1 THEN "direct" ELSE "transitive",
   publishedAt |-> publishedAt,
   isDefault |-> FALSE,
   vulnerabilities |-> <<>>,
   vulnerabilityCount |-> 0]

ReportInputs ==
  UNION {{[i \in 1..n |-> ReportRecord(i, dates[i])] : dates \in [1..n -> ReportDates]} :
           n \in 0..MaxRecords}

ReportInit ==
  /\ fs \in {Files(Missing, Missing, Missing)}
  /\ call = [entry |-> "report", argv |-> "", packageJsonPath |-> DefaultManifest,
             includeTransitive |-> TRUE]
  /\ results \in ReportInputs
  /\ rets = <<[fn |-> "scanDependencies", arg |-> DefaultManifest,
               result |-> Return(results, <<>>)]>>
  /\ pc = "returned"
  /\ dependencies = <<>>
  /\ dependencyTypes = <<>>
  /\ idx = 0
  /\ versionInfo = NullInfo
  /\ outstanding = {}
  /\ timer = "idle"
  /\ elapsed = 0
  /\ log = <<>>
  /\ events = <<>>
  /\ console = <<>>
  /\ written = <<>>
  /\ exitCode = -1

CallGenerateReport ==
  /\ call.entry = "report"
  /\ pc = "returned"
  /\ console' = Append(console, ConsoleReport(results))
  /\ results' = ArgumentAfterReport(results)
  /\ pc' = "reported"
  /\ UNCHANGED <<fs, call, dependencies, dependencyTypes, idx, versionInfo,
                 outstanding, timer, elapsed, log, events, written, exitCode, rets>>

CallSaveResults ==
  /\ call.entry = "report"
  /\ pc = "reported"
  /\ written' = Append(written, Saved(results))
  /\ pc' = "saved"
  /\ UNCHANGED <<fs, call, dependencies, dependencyTypes, idx, versionInfo, results,
                 outstanding, timer, elapsed, log, events, console, exitCode, rets>>

ReportNext ==
  \/ CallGenerateReport
  \/ CallSaveResults

SpecReport == ReportInit /\ [][ReportNext]_vars

(***************************************************************************)
(* A run: main from the command line, or scanDependencies called with      *)
(* arguments.                                                              *)
(***************************************************************************)
ScanManifests ==
  {Missing, Malformed,
   Manifest(Group(<<<<Axios, CaretV1>>>>), Absent),
   Manifest(Group(<<<<Chalk, EmptyString>>>>), Absent),
   Manifest(Absent, Group(<<<<Constructor, TildeV2>>>>)),
   Manifest(Group(<<<<Scoped, OrRange>>>>), Absent)}
ScanOthers == {Missing, Manifest(Group(<<<<FollowRedirects, V2>>>>), Absent)}
UnusableLocks == {Missing, Malformed, LockWithoutTable}
InstalledLock ==
  Lock(<< <<EmptyString, Info(V1)>>,
          <<InstallPath(<<Axios>>), Info(V1)>>,
          <<InstallPath(<<Axios, FollowRedirects>>), Info(V2)>> >>)

\* The files of a run: any manifest beside a lock file that holds no table,
\* or the installed tree beside its manifest (or beside none).
ScanFiles ==
  {Files(m, o, l) : m \in ScanManifests, o \in ScanOthers, l \in UnusableLocks}
    \cup {Files(m, o, InstalledLock) :
            m \in {Missing, Manifest(Group(<<<<Axios, CaretV1>>>>), Absent)},
            o \in ScanOthers}

Calls ==
  {[entry |-> "main", argv |-> a, packageJsonPath |-> DefaultManifest,
    includeTransitive |-> TRUE] : a \in {"", OtherManifest}}
    \cup {[entry |-> "api", argv |-> "", packageJsonPath |-> p, includeTransitive |-> t] :
            p \in {DefaultManifest, OtherManifest}, t \in BOOLEAN}

Init ==
  /\ fs \in ScanFiles
  /\ call \in Calls
  /\ Idle

Next ==
  \/ ScanStart
  \/ VersionInfoResolves
  \/ VulnerabilitiesResolve
  \/ Tick
  \/ TimerFires
  \/ MainGenerateReport
  \/ MainSaveResults
  \/ ApiSaveResults

Spec == Init /\ [][Next]_vars

\* Every fetch under way ends, with a response or an error; time passes
\* while a timer is armed; a timer that is due calls back.
Fairness ==
  /\ WF_vars(VersionInfoResolves)
  /\ WF_vars(VulnerabilitiesResolve)
  /\ WF_vars(Tick)
  /\ WF_vars(TimerFires)

\* The runs whose termination is checked: main over the installed tree, and
\* scanDependencies called in either mode beside an unusable lock file.
LiveInit ==
  /\ \/ /\ fs = Files(Manifest(Group(<<<<Axios, CaretV1>>>>), Absent), Missing, InstalledLock)
        /\ call \in {c \in Calls : c.entry = "main" /\ c.argv = ""}
     \/ /\ fs \in {Files(m, Missing, l) : m \in ScanManifests, l \in {Missing, LockWithoutTable}}
        /\ call \in {c \in Calls : c.entry = "api" /\ c.packageJsonPath = DefaultManifest}
  /\ Idle

SpecLive == LiveInit /\ [][Next]_vars /\ Fairness

(***************************************************************************)
(* The original scanner: no lock file, no classification.                  *)
(***************************************************************************)
OriginalGetDependencies(packageJsonPath) ==
  IF Readable(packageJsonPath)
  THEN Return(PutAll(PutAll(<<>>, Spread(fs[packageJsonPath].dependencies)),
                     Spread(fs[packageJsonPath].devDependencies)), <<>>)
  ELSE Throw(<<"Failed to read package.json", ReadError(packageJsonPath)>>, <<>>)

\* What the original getVersionInfo returns for a fetch that ended so.
OriginalVersionInfo(status, body) == IF status = "ok" THEN body ELSE NullInfo

\* What the original getVulnerabilities returns for a fetch that ended so.
OriginalVulnerabilities(status, body) ==
  IF status = "ok" /\ body.hasAdvisories THEN body.advisories ELSE <<>>

\* The record the original scanDependencies pushes.
OriginalRecord(packageName, version, info, vulnerabilities) ==
  [package |-> packageName,
   currentVersion |-> version,
   publishedAt |->
     IF ~info.null /\ TruthyStr(info.publishedAt) THEN info.publishedAt ELSE Unknown,
   isDefault |-> ~info.null /\ info.isDefault,
   vulnerabilities |->
     [i \in 1..Len(vulnerabilities) |->
        [id |-> vulnerabilities[i].id, title |-> vulnerabilities[i].title,
         severity |-> vulnerabilities[i].severity, cvss |-> vulnerabilities[i].cvss,
         summary |-> vulnerabilities[i].summary]],
   vulnerabilityCount |-> Len(vulnerabilities)]

\* The fetches the original scanDependencies issues over deps, in order.
OriginalRequests(deps) ==
  [k \in 1..(2 * Len(deps)) |->
     LET i == (k + 1) \div 2
         cleanVersion ==
           LET version == deps[i][2]
               marks == {m \in 1..Len(version) : version[m] \in {"^", "~"}}
           IN IF marks = {} THEN version
              ELSE LET first == CHOOSE m \in marks : \A j \in marks : m <= j
                   IN SubSeq(version, 1, first - 1)
                        \o SubSeq(version, first + 1, Len(version))
     IN [fn |-> IF k % 2 = 1 THEN "getVersionInfo" ELSE "getVulnerabilities",
         i |-> i, package |-> deps[i][1], version |-> cleanVersion]]

(***************************************************************************)
(* Properties.                                                             *)
(***************************************************************************)
ScanReturned == pc \in {"returned", "reported", "done", "saved"}
ScanFailed == pc \in {"rejected", "exited"}
InLoop == pc \in {"awaitVersion", "awaitVulns", "delay"}

\* The fetch of fn for entry i has ended with one of the statuses.
Responded(i, fn, statuses) ==
  \E k \in 1..Len(events) :
    /\ events[k].type = "response"
    /\ events[k].fn = fn
    /\ events[k].i = i
    /\ events[k].status \in statuses

Failures == {"neterr", "http500", "http404"}

\* The calls of fn made so far that returned.
Returned(fn) == {k \in 1..Len(rets) : rets[k].fn = fn /\ ~rets[k].result.threw}

\* C1: scanDependencies returns exactly one record per entry of the mapping
\* it scans, in the mapping's order, whatever the two fetches of each package
\* end with; no fetch outcome makes the scan fail or drops a package.
C1_OneRecordPerPackage ==
  /\ (InLoop \/ ScanReturned) => dependencies = LoadDependencies.value
  /\ idx >= 1 => ~ScanFailed
  /\ pc \in {"awaitVersion", "awaitVulns"} => Len(results) = idx - 1
  /\ pc = "delay" => Len(results) = idx
  /\ \A i \in 1..Len(results) :
       /\ i <= Len(dependencies)
       /\ results[i].package = dependencies[i][1]
       /\ results[i].currentVersion = dependencies[i][2]
  /\ ScanReturned =>
       /\ Len(results) = Len(dependencies)
       /\ rets[Len(rets)].fn = "scanDependencies"
       /\ ~rets[Len(rets)].result.threw
       /\ rets[Len(rets)].result.value = results

\* C1 witness: a scan of two packages returned though every fetch failed, in
\* each of the three ways.
C1_Witness ==
  /\ ScanReturned
  /\ Len(results) = 2
  /\ Responded(1, "getVersionInfo", {"neterr"})
  /\ Responded(1, "getVulnerabilities", {"http500"})
  /\ Responded(2, "getVersionInfo", {"http404"})
  /\ Responded(2, "getVulnerabilities", {"http404"})

\* C2: getDependencyTypes classifies every indexed package exactly once, in
\* index order, as 'direct' if and only if its name is a key of the merged
\* dependencies + devDependencies of the manifest, whatever the range is.
C2_DirectIffDeclared ==
  \A k \in Returned("getDependencyTypes") :
    LET types == rets[k].result.value
        installed == getAllInstalledPackages(DefaultLock).value
        merged == MergedGroups(fs[rets[k].arg])
    IN /\ Len(types) = Len(installed)
       /\ \A i \in 1..Len(types) :
            /\ types[i][1] = installed[i][1]
            /\ types[i][2] = "direct" <=> HasOwn(merged, types[i][1])

\* The table entries of the lock file that are packages: not the root entry,
\* and with a version.
LockTable == IF fs[DefaultLock].hasPackages THEN fs[DefaultLock].packages ELSE <<>>
Eligible ==
  {i \in 1..Len(LockTable) :
     LockTable[i][1] # EmptyString /\ LockTable[i][2].version # Undefined}

\* C5: for a readable lock file, every entry of the index comes from a table
\* entry that is not the root entry and has a version: the index has no more
\* entries than there are such table entries, and each indexed version is the
\* version of one of them; the empty name of the root is never indexed.
C5_NoRootNoVersionless ==
  \A k \in Returned("getAllInstalledPackages") :
    Readable(DefaultLock) =>
      LET index == rets[k].result.value
      IN /\ Len(index) <= Cardinality(Eligible)
         /\ \A n \in 1..Len(index) :
              /\ index[n][1] # EmptyString
              /\ \E i \in Eligible : LockTable[i][2].version = index[n][2]

\* C5 witness: a table holding the root entry with a version and an entry
\* without a version was indexed, and the index came out empty.
C5_Witness ==
  /\ Returned("getAllInstalledPackages") # {}
  /\ Readable(DefaultLock)
  /\ Len(LockTable) = 2
  /\ \E i \in 1..2 : LockTable[i][1] = EmptyString /\ LockTable[i][2].version # Undefined
  /\ \E i \in 1..2 : LockTable[i][1] # EmptyString /\ LockTable[i][2].version = Undefined
  /\ rets[1].result.value = <<>>

\* The name an installation path installs: '@scope/name' when its final
\* segments are a scoped name, else its final segment.
InstalledName(packagePath) ==
  LET n == Len(packagePath)
  IN IF n >= 4 /\ packagePath[n - 3] = AT
     THEN SubSeq(packagePath, n - 3, n)
     ELSE SubSeq(packagePath, n, n)

\* C6: every versioned path of the table is indexed under the name it
\* installs: the whole '@scope/name' for a scoped package, at top level or
\* nested, and the final segment for an unscoped package.
C6_IndexedUnderInstalledName ==
  \A k \in Returned("getAllInstalledPackages") :
    Readable(DefaultLock) =>
      \A i \in Eligible : HasOwn(rets[k].result.value, InstalledName(LockTable[i][1]))

\* C3: with a readable manifest at the path given to scanDependencies and an
\* unreadable lock file, the scan does not fail, scans exactly the merged
\* dependencies of that manifest, and every record is 'direct'.
C3_DegradedModeDirectOnly ==
  (~Readable(DefaultLock) /\ Readable(PackageJsonPath) /\ IncludeTransitive
     /\ pc # "ready") =>
    /\ ~ScanFailed
    /\ dependencies = MergedGroups(fs[PackageJsonPath])
    /\ \A i \in 1..Len(results) : results[i].dependencyType = "direct"

\* C4: when the manifest scanDependencies is given is missing or malformed,
\* the scan fails before any fetch is issued, in either mode; nothing is
\* scanned, printed or written, and main exits with code 1.
C4_ManifestFatal ==
  (~Readable(PackageJsonPath) /\ pc # "ready") =>
    /\ ScanFailed
    /\ events = <<>>
    /\ outstanding = {}
    /\ results = <<>>
    /\ console = <<>>
    /\ written = <<>>
    /\ rets[Len(rets)].fn = "scanDependencies"
    /\ rets[Len(rets)].result.threw
    /\ call.entry = "main" => (pc = "exited" /\ exitCode = 1)

\* C4 witness: main ran without a manifest beside a readable lock file, and
\* exited with code 1.
C4_Witness ==
  /\ call.entry = "main"
  /\ fs[DefaultManifest].kind = "missing"
  /\ Readable(DefaultLock)
  /\ pc = "exited"
  /\ exitCode = 1

BothFailed(i) ==
  /\ Responded(i, "getVersionInfo", Failures)
  /\ Responded(i, "getVulnerabilities", Failures)

\* What a record of a package whose two fetches failed looks like, but for
\* publishedAt, and how the summary counts it.
BothFailedCounts ==
  /\ \A i \in 1..Len(results) :
       BothFailed(i) =>
         /\ results[i].vulnerabilityCount = 0
         /\ results[i].vulnerabilities = <<>>
  /\ Summary(results).totalPackages = Len(results)
  /\ Summary(results).vulnerablePackages
       <= Len(results) - Cardinality({i \in 1..Len(results) : BothFailed(i)})
  /\ \A w \in 1..Len(written) : written[w].report.summary = Summary(results)

ResponseBody(i, fn) ==
  events[CHOOSE k \in 1..Len(events) :
           events[k].type = "response" /\ events[k].fn = fn /\ events[k].i = i].body

Logged(what, i) ==
  \E n \in 1..Len(log) :
    /\ log[n].level = "error"
    /\ log[n].what = what
    /\ log[n].pkg = <<dependencies[i][1], dependencies[i][2]>>

VersionFailedOnly(i) ==
  /\ Responded(i, "getVersionInfo", Failures)
  /\ Responded(i, "getVulnerabilities", {"ok"})

AdvisoriesFailedOnly(i) ==
  /\ Responded(i, "getVersionInfo", {"ok"})
  /\ Responded(i, "getVulnerabilities", {"neterr", "http500"})

\* C8: the two sub-results are independent.  If only the version fetch
\* failed, the record carries the returned advisories, same count and order,
\* and publishedAt is unknown; if only the advisories fetch failed, the
\* record carries the returned publishedAt and no advisory.  The failure is
\* logged, the record is pushed and the scan goes on.
C8_IndependentSubResults ==
  /\ \A i \in 1..Len(dependencies) :
       Responded(i, "getVulnerabilities", Statuses) => (Len(results) >= i /\ ~ScanFailed)
  /\ \A i \in 1..Len(results) :
       /\ VersionFailedOnly(i) =>
            LET body == ResponseBody(i, "getVulnerabilities")
                returned == IF body.hasAdvisories THEN body.advisories ELSE <<>>
                kept == results[i].vulnerabilities
            IN /\ results[i].publishedAt = Unknown
               /\ results[i].vulnerabilityCount = Len(returned)
               /\ Len(kept) = Len(returned)
               /\ \A j \in 1..Len(returned) :
                    /\ kept[j].id = returned[j].id
                    /\ kept[j].title = returned[j].title
                    /\ kept[j].severity = returned[j].severity
                    /\ kept[j].cvss = returned[j].cvss
                    /\ kept[j].summary = returned[j].summary
               /\ Logged("Failed to get version info", i)
       /\ AdvisoriesFailedOnly(i) =>
            LET body == ResponseBody(i, "getVersionInfo")
            IN /\ body.publishedAt # UndefinedStr
                    => results[i].publishedAt = body.publishedAt
               /\ results[i].isDefault = body.isDefault
               /\ results[i].vulnerabilities = <<>>
               /\ results[i].vulnerabilityCount = 0
               /\ Logged("Failed to get vulnerabilities", i)

\* C8 witness: a scan returned two records, the first with two advisories
\* after a failed version fetch, the second with a publication date after a
\* failed advisories fetch.
C8_Witness ==
  /\ ScanReturned
  /\ Len(results) = 2
  /\ VersionFailedOnly(1)
  /\ results[1].vulnerabilityCount = 2
  /\ results[1].vulnerabilities[1].id = A2.id
  /\ results[1].vulnerabilities[2].id = A1.id
  /\ AdvisoriesFailedOnly(2)
  /\ results[2].publishedAt = PublishedD1

Count(type, n) == Cardinality({k \in 1..n : events[k].type = type})

\* C9: at most one fetch is outstanding.  A fetch is issued only when every
\* earlier one has ended; the advisories fetch of a package right after its
\* version fetch ended; the version fetch of the next package right after
\* the timer set behind the previous package fired.
C9_OneOutstanding ==
  /\ Cardinality(outstanding) <= 1
  /\ outstanding # {} <=> pc \in {"awaitVersion", "awaitVulns"}
  /\ Count("request", Len(events)) - Count("response", Len(events))
       = Cardinality(outstanding)
  /\ \A k \in 1..Len(events) :
       events[k].type = "request" =>
         /\ Count("request", k - 1) = Count("response", k - 1)
         /\ events[k].fn = "getVulnerabilities" =>
              /\ k > 1
              /\ events[k - 1].type = "response"
              /\ events[k - 1].fn = "getVersionInfo"
              /\ events[k - 1].i = events[k].i
         /\ (events[k].fn = "getVersionInfo" /\ events[k].i > 1) =>
              /\ events[k - 1].type = "timerFired"
              /\ events[k - 1].i = events[k].i - 1
              /\ Count("response", k - 1) = 2 * (events[k].i - 1)

\* C9 witness: the advisories fetch of the second package is outstanding.
C9_Witness ==
  /\ pc = "awaitVulns"
  /\ idx = 2
  /\ Cardinality(outstanding) = 1

\* C10: between two consecutive packages the whole delay passes: the timer
\* is set once the advisories fetch of the first has ended, and the version
\* fetch of the next is issued only after the timer fired, DelayMs or more
\* after it was set.
C10_DelayBetweenPackages ==
  /\ (timer = "armed" /\ elapsed < DelayMs) => (pc = "delay" /\ outstanding = {})
  /\ (idx > 1 /\ pc \in {"awaitVersion", "awaitVulns"}) =>
       (timer = "idle" /\ elapsed >= DelayMs)
  /\ \A k \in 1..Len(events) :
       (events[k].type = "request" /\ events[k].fn = "getVersionInfo"
          /\ events[k].i > 1) =>
         \E r, a, b \in 1..(k - 1) :
           /\ r < a /\ a < b
           /\ events[r].type = "response"
           /\ events[r].fn = "getVulnerabilities"
           /\ events[r].i = events[k].i - 1
           /\ events[a].type = "timerSet"
           /\ events[a].i = events[k].i - 1
           /\ events[b].type = "timerFired"
           /\ events[b].i = events[k].i - 1

\* C10 witness: the version fetch of the second package has been issued.
C10_Witness ==
  /\ pc = "awaitVersion"
  /\ idx = 2
  /\ elapsed >= DelayMs

\* The positions of the history at which a fetch was issued.
RequestAt == {k \in 1..Len(events) : events[k].type = "request"}

\* C11: between any two consecutive requests of a scan the 100 ms delay
\* passes: the timer is set and fires between them.
C11_DelayBetweenRequests ==
  \A k1, k2 \in RequestAt :
    (k1 < k2 /\ \A k \in RequestAt : ~(k1 < k /\ k < k2)) =>
      \E a, b \in (k1 + 1)..(k2 - 1) :
        /\ a < b
        /\ events[a].type = "timerSet"
        /\ events[b].type = "timerFired"

\* C12: the summary of every saved report partitions its records: direct +
\* transitive = total = number of records, vulnerableDirect +
\* vulnerableTransitive = vulnerablePackages, and vulnerablePackages is the
\* number of records with vulnerabilityCount > 0.
C12_SummaryPartitions ==
  \A w \in 1..Len(written) :
    LET s == written[w].report.summary
        res == written[w].report.results
    IN /\ s.totalPackages = Len(res)
       /\ s.directDependencies + s.transitiveDependencies = s.totalPackages
       /\ s.vulnerableDirect + s.vulnerableTransitive = s.vulnerablePackages
       /\ s.vulnerablePackages
            = Cardinality({i \in 1..Len(res) : res[i].vulnerabilityCount > 0})

\* The records of res with advisories and the given classification.
VulnerableOfType(res, type) ==
  {i \in 1..Len(res) : res[i].vulnerabilityCount > 0 /\ res[i].dependencyType = type}

\* C13: a package whose advisories fetch returned n advisories has
\* vulnerabilityCount n; the summary of a saved report counts every record
\* with advisories in vulnerablePackages, and a direct one in vulnerableDirect
\* and not in vulnerableTransitive.
C13_CountedAsVulnerableDirect ==
  /\ \A i \in 1..Len(results) :
       Responded(i, "getVulnerabilities", {"ok"}) =>
         LET body == ResponseBody(i, "getVulnerabilities")
         IN results[i].vulnerabilityCount
              = IF body.hasAdvisories THEN Len(body.advisories) ELSE 0
  /\ \A w \in 1..Len(written) :
       LET s == written[w].report.summary
           res == written[w].report.results
       IN /\ s.vulnerablePackages
               = Cardinality({i \in 1..Len(res) : res[i].vulnerabilityCount > 0})
          /\ s.vulnerableDirect = Cardinality(VulnerableOfType(res, "direct"))
          /\ s.vulnerableTransitive = Cardinality(VulnerableOfType(res, "transitive"))

\* C13 witness: main saved a report whose first record is direct, has as
\* many advisories as one response can carry, and is counted as vulnerable
\* and direct.
C13_Witness ==
  /\ pc = "done"
  /\ Len(results) = 2
  /\ results[1].dependencyType = "direct"
  /\ results[1].vulnerabilityCount = MaxAdvisories
  /\ results[2].vulnerabilityCount = 0
  /\ written[1].report.summary.vulnerablePackages = 1
  /\ written[1].report.summary.vulnerableDirect = 1
  /\ written[1].report.summary.vulnerableTransitive = 0

\* The records of res with a known publication date.
Known(res) == {i \in 1..Len(res) : res[i].publishedAt # Unknown}

\* Record i of res comes before record j in the oldest-first order: it was
\* published earlier, or at the same instant and it stands earlier in res.
Older(res, i, j) ==
  \/ Timestamp(res[i].publishedAt) < Timestamp(res[j].publishedAt)
  \/ /\ Timestamp(res[i].publishedAt) = Timestamp(res[j].publishedAt)
     /\ i < j

\* The place of record i among the known records, oldest first.
Rank(res, i) == Cardinality({j \in Known(res) : Older(res, j, i)}) + 1

C14_WitnessEmpty ==
  /\ call.entry = "report"
  /\ Len(console) = 1
  /\ Len(results) > 0
  /\ Known(results) = {}
  /\ console[1].oldest = <<>>

SameProperty(a, b, k) ==
  CASE k \in DOMAIN a /\ k \in DOMAIN b -> a[k] = b[k]
    [] k \in DOMAIN a /\ k \notin DOMAIN b -> a[k] = UndefinedStr
    [] k \notin DOMAIN a /\ k \in DOMAIN b -> b[k] = UndefinedStr
    [] OTHER -> TRUE

SameAdvisories(x, y) ==
  /\ Len(x) = Len(y)
  /\ \A j \in 1..Len(x) : \A k \in DOMAIN x[j] \cup DOMAIN y[j] : SameProperty(x[j], y[j], k)

SameRecord(a, b) ==
  /\ \A k \in (DOMAIN a \cup DOMAIN b) \ {"vulnerabilities"} : SameProperty(a, b, k)
  /\ SameAdvisories(a.vulnerabilities, b.vulnerabilities)

\* C15: the report read back from the file saveResults wrote equals the
\* report object saveResults built, field for field: every field of every
\* record and of every advisory reads the same in both.
C15_RoundTrip ==
  \A w \in 1..Len(written) :
    LET memory == written[w].report
        reread == written[w].json
    IN /\ reread.scanDate = memory.scanDate
       /\ reread.summary = memory.summary
       /\ Len(reread.results) = Len(memory.results)
       /\ \A i \in 1..Len(memory.results) : SameRecord(memory.results[i], reread.results[i])

RECURSIVE StripLeading(_)
\* version without the caret and tilde marks it begins with.
StripLeading(version) ==
  IF version # <<>> /\ Head(version) \in {"^", "~"} THEN StripLeading(Tail(version))
  ELSE version

\* C17: the version either enrichment request carries is the version of the
\* package being scanned with its leading caret and tilde marks removed and
\* nothing else changed.
C17_LeadingMarksStripped ==
  \A request \in outstanding :
    /\ request.package = dependencies[idx][1]
    /\ request.version = StripLeading(dependencies[idx][2])

\* The table entries that are indexed under name.
IndexedAs(name) == {i \in Eligible : NormalizedName(LockTable[i][1]) = name}

Declared(group) == IF group.present THEN group.entries ELSE <<>>

\* C19: for a readable manifest getDependencies returns, without an error,
\* one entry for each name declared in the runtime or the development group
\* and no other; a name declared in both carries the development group's
\* range; an absent group contributes nothing.
C19_MergedGroups ==
  \A k \in 1..Len(rets) :
    (rets[k].fn = "getDependencies" /\ Readable(rets[k].arg)) =>
      LET runtime == Declared(fs[rets[k].arg].dependencies)
          development == Declared(fs[rets[k].arg].devDependencies)
          merged == rets[k].result.value
      IN /\ ~rets[k].result.threw
         /\ Keys(merged) = Keys(runtime) \cup Keys(development)
         /\ Len(merged) = Cardinality(Keys(merged))
         /\ \A name \in Keys(merged) :
              OwnValue(merged, name) =
                IF HasOwn(development, name) THEN OwnValue(development, name)
                ELSE OwnValue(runtime, name)

\* C19 witness: axios is declared in both groups with different ranges and
\* chalk in the development group only; the mapping returned holds axios
\* with the development range, and chalk.
C19_Witness ==
  /\ Len(rets) >= 1
  /\ rets[1].fn = "getDependencies"
  /\ rets[1].arg = DefaultManifest
  /\ Readable(DefaultManifest)
  /\ fs[DefaultManifest].dependencies = Group(<<<<Axios, CaretV1>>>>)
  /\ fs[DefaultManifest].devDependencies = Group(<<<<Chalk, EmptyString>>, <<Axios, TildeV2>>>>)
  /\ rets[1].result.value = <<<<Axios, TildeV2>>, <<Chalk, EmptyString>>>>

\* C19 witness, second case: a manifest with neither group gave the empty
\* mapping.
C19_WitnessNoGroups ==
  /\ Len(rets) >= 1
  /\ rets[1].fn = "getDependencies"
  /\ Readable(rets[1].arg)
  /\ ~fs[rets[1].arg].dependencies.present
  /\ ~fs[rets[1].arg].devDependencies.present
  /\ rets[1].result = Return(<<>>, <<>>)

\* The advisories fetch of package i ended with a 404: the record has no
\* advisory and no failure of that fetch was logged.
AdvisoriesNotFoundIsEmpty(i) ==
  Responded(i, "getVulnerabilities", {"http404"}) =>
    /\ results[i].vulnerabilities = <<>>
    /\ results[i].vulnerabilityCount = 0
    /\ ~Logged("Failed to get vulnerabilities", i)

\* The version fetch of package i ended with a 404: the record has the
\* unknown publication date and is not marked default.
VersionNotFoundIsUnknown(i) ==
  Responded(i, "getVersionInfo", {"http404"}) =>
    /\ results[i].publishedAt = Unknown
    /\ ~results[i].isDefault

C21_ArgumentIsScanned ==
  (call.entry = "main" /\ call.argv # "" /\ pc # "ready") =>
    /\ \A k \in 1..Len(rets) :
         rets[k].fn = "scanDependencies" => rets[k].arg = call.argv
    /\ ~Readable(call.argv) =>
         /\ pc = "exited"
         /\ exitCode = 1
         /\ written = <<>>
         /\ \E n \in 1..Len(log) :
              /\ log[n].what = "Scan failed:"
              /\ log[n].detail[1] = "Failed to read package.json"

\* C22: a report is never produced with installed packages missing from it
\* unless a warning was logged: when the lock file beside the manifest
\* parses, every package the manifest declares has a record in a report
\* printed or saved, or a warning stands in the log.
C22_NoSilentlyMissingPackages ==
  (Readable(DefaultLock) /\ PackageJsonPath = DefaultManifest
     /\ Readable(DefaultManifest) /\ IncludeTransitive
     /\ (console # <<>> \/ written # <<>>)) =>
    \/ \A name \in Keys(MergedGroups(fs[PackageJsonPath])) :
         \E i \in 1..Len(results) : results[i].package = name
    \/ \E n \in 1..Len(log) : log[n].level = "warn"

C24_SavedOnceAtTheEnd ==
  call.entry = "main" =>
    /\ Len(written) <= 1
    /\ ScanFailed => written = <<>>
    /\ written # <<>> =>
         /\ pc = "done"
         /\ rets[Len(rets)].fn = "scanDependencies"
         /\ ~rets[Len(rets)].result.threw
         /\ Len(rets[Len(rets)].result.value) = Len(dependencies)
         /\ written[1].report.results = rets[Len(rets)].result.value
         /\ console = <<ConsoleReport(rets[Len(rets)].result.value)>>

\* C24 witness: main scanned two packages, printed the report and saved it.
C24_Witness ==
  /\ call.entry = "main"
  /\ pc = "done"
  /\ Len(written) = 1
  /\ Len(console) = 1
  /\ Len(written[1].report.results) = 2

\* The positions of the history at which event type happened for entry i
\* (and fetch fn, when the event is of a fetch).
EventAt(type, fn, i) ==
  {k \in 1..Len(events) : events[k].type = type /\ events[k].fn = fn /\ events[k].i = i}

\* C25: every record in results belongs to a package whose two fetches have
\* both ended before the record was pushed, and no fetch of that package is
\* outstanding.
C25_NoTornRecords ==
  \A i \in 1..Len(results) :
    /\ \A request \in outstanding : request.package # results[i].package
    /\ \A r \in EventAt("record", "", i) :
         /\ \E k \in EventAt("response", "getVersionInfo", i) : k < r
         /\ \E k \in EventAt("response", "getVulnerabilities", i) : k < r
    /\ EventAt("record", "", i) # {}

\* C25 witness: the first package's record stands in results while a fetch
\* of the second package is outstanding.
C25_Witness ==
  /\ Len(results) = 1
  /\ idx = 2
  /\ pc = "awaitVulns"
  /\ outstanding # {}
  /\ Responded(1, "getVersionInfo", {"neterr"})
  /\ Responded(1, "getVulnerabilities", {"ok"})

\* C26: during a scan results is append-only: the step that ends a loop
\* iteration extends it by exactly one record and leaves the earlier records
\* as they were, in place; no other step of the scan changes it.
C26_AppendOnly ==
  [][IF pc = "awaitVulns"
     THEN /\ Len(results') = Len(results) + 1
          /\ SubSeq(results', 1, Len(results)) = results
     ELSE results' = results]_vars

\* C26 witness: the second record was appended behind the first.
C26_Witness ==
  /\ pc = "delay"
  /\ idx = 2
  /\ Len(results) = 2
  /\ results[1].package = dependencies[1][1]
  /\ results[2].package = dependencies[2][1]

\* C27: a scan whose loop has started returns, provided every fetch ends and
\* every timer fires; when it has returned, each package has had exactly one
\* version fetch and one advisories fetch, no other fetch was issued, and
\* none is outstanding.
C27_Terminates ==
  /\ InLoop ~> ScanReturned
  /\ [](ScanReturned =>
          /\ outstanding = {}
          /\ Cardinality(RequestAt) = 2 * Len(dependencies)
          /\ \A i \in 1..Len(dependencies) :
               /\ Cardinality(EventAt("request", "getVersionInfo", i)) = 1
               /\ Cardinality(EventAt("request", "getVulnerabilities", i)) = 1)

\* C27 witness: a scan of two packages has returned after four fetches.
C27_Witness ==
  /\ pc = "returned"
  /\ Len(dependencies) = 2
  /\ Cardinality(RequestAt) = 4
  /\ events[Len(events)].type = "timerFired"

\* C28: every record of a scan has dependencyType 'direct' or 'transitive';
\* in direct-only mode every record is 'direct' and the summary counts no
\* transitive dependency.
C28_TypeIsDirectOrTransitive ==
  /\ \A i \in 1..Len(results) : results[i].dependencyType \in {"direct", "transitive"}
  /\ (pc # "ready" /\ ~IncludeTransitive) =>
       /\ \A i \in 1..Len(results) : results[i].dependencyType = "direct"
       /\ Summary(results).transitiveDependencies = 0

\* The n-th fetch issued, as a position of the history.
NthRequest(n) == CHOOSE k \in RequestAt : Cardinality({j \in RequestAt : j <= k}) = n

\* The response to the fetch of fn for entry i.
ResponseOf(i, fn) ==
  events[CHOOSE k \in 1..Len(events) :
           events[k].type = "response" /\ events[k].fn = fn /\ events[k].i = i]

\* record without its dependencyType field.
WithoutType(record) == [k \in DOMAIN record \ {"dependencyType"} |-> record[k]]

\* A direct-only scan does what the original scanner does over the same
\* manifest and the same responses: it fails when the original fails, issues
\* the same fetches in the same order, and pushes records that are, but for
\* dependencyType, the original's records.
SameAsOriginalButType ==
  (call.entry = "api" /\ ~call.includeTransitive /\ pc # "ready") =>
    LET original == OriginalGetDependencies(PackageJsonPath)
    IN IF original.threw
       THEN /\ ScanFailed
            /\ rets[Len(rets)].result.error = original.error
            /\ events = <<>>
       ELSE LET deps == original.value
                requests == OriginalRequests(deps)
                issued == Cardinality(RequestAt)
            IN /\ ~ScanFailed
               /\ issued <= Len(requests)
               /\ \A n \in 1..issued :
                    /\ events[NthRequest(n)].fn = requests[n].fn
                    /\ events[NthRequest(n)].i = requests[n].i
               /\ \A request \in outstanding :
                    request = [fn |-> requests[issued].fn,
                               package |-> requests[issued].package,
                               version |-> requests[issued].version]
               /\ ScanReturned => (issued = Len(requests) /\ Len(results) = Len(deps))
               /\ Len(results) <= Len(deps)
               /\ \A i \in 1..Len(results) :
                    LET info == ResponseOf(i, "getVersionInfo")
                        advisories == ResponseOf(i, "getVulnerabilities")
                    IN WithoutType(results[i])
                         = OriginalRecord(deps[i][1], deps[i][2],
                                          OriginalVersionInfo(info.status, info.body),
                                          OriginalVulnerabilities(advisories.status,
                                                                  advisories.body))

\* C29: the enhanced scanner in direct-only mode is equivalent to the
\* original scanner: same fetches in the same order, and records equal to
\* the original's except that each also carries dependencyType 'direct'.
C29_DirectOnlyIsOriginal ==
  /\ SameAsOriginalButType
  /\ (call.entry = "api" /\ ~call.includeTransitive) =>
       \A i \in 1..Len(results) : results[i].dependencyType = "direct"

\* C30: the record of a package carries the key and the version string of
\* the scanned mapping as they are, caret and tilde included, in results and
\* in every saved report; only the requests carry the stripped version.
C30_RecordKeepsVersion ==
  LET scanned == LoadDependencies.value
  IN /\ \A i \in 1..Len(results) :
          /\ results[i].package = scanned[i][1]
          /\ results[i].currentVersion = scanned[i][2]
     /\ \A w \in 1..Len(written) :
          \A i \in 1..Len(written[w].report.results) :
            /\ written[w].report.results[i].package = scanned[i][1]
            /\ written[w].report.results[i].currentVersion = scanned[i][2]
            /\ written[w].json.results[i].currentVersion = scanned[i][2]

\* C30 witness: the advisories of axios were asked for with version 1.12.2
\* and its record carries ^1.12.2.
C30_Witness ==
  /\ pc = "delay"
  /\ Len(results) = 1
  /\ dependencies[1] = <<Axios, CaretV1>>
  /\ Request("getVulnerabilities", Axios, CaretV1).version = V1
  /\ Responded(1, "getVulnerabilities", {"ok"})
  /\ results[1].package = Axios
  /\ results[1].currentVersion = CaretV1

====
